---- MODULE Spec2Model ----
(***************************************************************************)
(* A model of the street-merge engine of src/command/street_merge.go:     *)
(* generateStreetsFromWays (S1), the name normalisation, the proximity    *)
(* and direction partitioning of joinStreets (S2, S3, S4), and the three  *)
(* stitching functions mergeStreetSameDirection (S5),                     *)
(* mergeLaneSameDirection (S6) and mergeStreet (S7).                      *)
(*                                                                         *)
(* Strings are sequences of Unicode code points.  A point is <<lon, lat>> *)
(* in units of 0.00005 degree, so that the four tolerances of the code    *)
(* are the integers 60, 13, 10 and 6.  A *street is an index into the     *)
(* heap `street`; every slice of the code holds such indices, so that the *)
(* aliasing of the code (one street appended twice to a bucket, a base    *)
(* mutated after it was emitted) is the aliasing of the model.            *)
(***************************************************************************)
EXTENDS Integers, Sequences, FiniteSets, TLC

(***************************************************************************)
(* Sequences and strings                                                   *)
(***************************************************************************)
Range(s) == {s[k] : k \in DOMAIN s}

RECURSIVE Reverse(_)
Reverse(s) == IF s = <<>> THEN <<>> ELSE Reverse(Tail(s)) \o <<Head(s)>>

Abs(n) == IF n < 0 THEN -n ELSE n

\* strings.HasPrefix
HasPrefix(s, prefix) ==
    /\ Len(prefix) <= Len(s)
    /\ SubSeq(s, 1, Len(prefix)) = prefix

\* strings.ReplaceAll for a non-empty pattern: leftmost, non-overlapping
RECURSIVE ReplaceAll(_, _, _)
ReplaceAll(s, old, new) ==
    IF s = <<>> THEN <<>>
    ELSE IF HasPrefix(s, old)
         THEN new \o ReplaceAll(SubSeq(s, Len(old) + 1, Len(s)), old, new)
         ELSE <<Head(s)>> \o ReplaceAll(Tail(s), old, new)

\* strings.Split(s, sep)[0]: the text before the first occurrence of sep
RECURSIVE SplitFirst(_, _)
SplitFirst(s, sep) ==
    IF s = <<>> \/ HasPrefix(s, sep) THEN <<>>
    ELSE <<Head(s)>> \o SplitFirst(Tail(s), sep)

\* Go's string order (bytewise on UTF-8, which is code point order)
RECURSIVE StrLess(_, _)
StrLess(a, b) ==
    IF b = <<>> THEN FALSE
    ELSE IF a = <<>> THEN TRUE
    ELSE IF Head(a) # Head(b) THEN Head(a) < Head(b)
    ELSE StrLess(Tail(a), Tail(b))

\* strconv.Itoa for the group ordinals, which stay below 100
Digit(n) == 48 + n
Itoa(n) == IF n < 10 THEN <<Digit(n)>> ELSE <<Digit(n \div 10), Digit(n % 10)>>

\* unicode.ToLower on the blocks the accent table lives in
ToLowerRune(c) ==
    IF c >= 65 /\ c <= 90 THEN c + 32
    ELSE IF c >= 192 /\ c <= 222 /\ c # 215 THEN c + 32
    ELSE IF c >= 256 /\ c <= 311 /\ c % 2 = 0 THEN c + 1
    ELSE IF c >= 330 /\ c <= 375 /\ c % 2 = 0 THEN c + 1
    ELSE IF c = 416 \/ c = 431 THEN c + 1
    ELSE IF c >= 7680 /\ c <= 7829 /\ c % 2 = 0 THEN c + 1
    ELSE IF c >= 7840 /\ c <= 7934 /\ c % 2 = 0 THEN c + 1
    ELSE c

\* strings.ToLower
ToLower(s) == [k \in DOMAIN s |-> ToLowerRune(s[k])]

(***************************************************************************)
(* removeAccent: the replacements of lines 631-789, then the table lookup *)
(***************************************************************************)
\* stringToRune allocates ll+1 entries: the last one stays "" (here -1)
SOURCE_CHARACTERS ==
    << 192, 193, 194, 195, 200, 201, 202, 204, 205, 210, 211, 212, 213, 217,
       218, 221, 224, 225, 226, 227, 232, 233, 234, 236, 237, 242, 243, 244,
       245, 249, 250, 253, 258, 259, 272, 273, 296, 297, 360, 361, 416, 417,
       431, 432, 7840, 7841, 7842, 7843, 7844, 7845, 7846, 7847, 7848, 7849,
       7850, 7851, 7852, 7853, 7854, 7855, 7856, 7857, 7858, 7859, 7860, 7861,
       7862, 7863, 7864, 7865, 7866, 7867, 7868, 7869, 7870, 7871, 7872, 7873,
       7874, 7875, 7876, 7877, 7878, 7879, 7880, 7881, 7882, 7883, 7884, 7885,
       7886, 7887, 7888, 7889, 7890, 7891, 7892, 7893, 7894, 7895, 7896, 7897,
       7898, 7899, 7900, 7901, 7902, 7903, 7904, 7905, 7906, 7907, 7908, 7909,
       7910, 7911, 7912, 7913, 7914, 7915, 7916, 7917, 7918, 7919, 7920, 7921,
       7929, 7923, 7927, 7925, 7928, 7922, 7926, 7924, -1 >>

DESTINATION_CHARACTERS ==
    << 65, 65, 65, 65, 69, 69, 69, 73, 73, 79, 79, 79, 79, 85, 85, 89, 97, 97,
       97, 97, 101, 101, 101, 105, 105, 111, 111, 111, 111, 117, 117, 121, 65,
       97, 68, 100, 73, 105, 85, 117, 79, 111, 85, 117, 65, 97, 65, 97, 65, 97,
       65, 97, 65, 97, 65, 97, 65, 97, 65, 97, 65, 97, 65, 97, 65, 97, 65, 97,
       69, 101, 69, 101, 69, 101, 69, 101, 69, 101, 69, 101, 69, 101, 69, 101,
       73, 105, 73, 105, 79, 111, 79, 111, 79, 111, 79, 111, 79, 111, 79, 111,
       79, 111, 79, 111, 79, 111, 79, 111, 79, 111, 79, 111, 85, 117, 85, 117,
       85, 117, 85, 117, 85, 117, 85, 117, 85, 117, 121, 121, 121, 121, 121,
       121, 121, 121, -1 >>

\* the rune count of the table
LL_LENGTH == Len(SOURCE_CHARACTERS) - 1

\* binarySearch over the 0-based Go slice sortedArray
RECURSIVE binarySearch(_, _, _, _)
binarySearch(sortedArray, key, low, high) ==
    LET middle == (low + high) \div 2 IN
    IF high < low THEN -1
    ELSE IF key = sortedArray[middle + 1] THEN middle
    ELSE IF key < sortedArray[middle + 1]
         THEN binarySearch(sortedArray, key, low, middle - 1)
         ELSE binarySearch(sortedArray, key, middle + 1, high)

removeAccentChar(ch) ==
    LET index == binarySearch(SOURCE_CHARACTERS, ch, 0, LL_LENGTH) IN
    IF index >= 0 THEN DESTINATION_CHARACTERS[index + 1] ELSE ch

\* the (old, new) pairs of the strings.ReplaceAll calls, in the code's order
Replacements ==
    << << <<7927>>, <<121>> >>, << <<7923>>, <<121>> >>, << <<7925>>, <<121>> >>,
       << <<121,768>>, <<121>> >>, << <<121,769>>, <<121>> >>,
       << <<244,769>>, <<111>> >>, << <<244,803>>, <<111>> >>,
       << <<417,803>>, <<111>> >>, << <<244,768>>, <<111>> >>,
       << <<417,768>>, <<111>> >>, << <<244,771>>, <<111>> >>,
       << <<417,777>>, <<111>> >>, << <<111,769>>, <<111>> >>,
       << <<111,777>>, <<111>> >>, << <<111,771>>, <<111>> >>,
       << <<242>>, <<111>> >>, << <<111,768>>, <<111>> >>,
       << <<111,803>>, <<111>> >>, << <<240>>, <<100>> >>,
       << <<259,768>>, <<97>> >>, << <<226,768>>, <<97>> >>,
       << <<226,803>>, <<97>> >>, << <<226,777>>, <<97>> >>,
       << <<226,769>>, <<97>> >>, << <<227>>, <<97>> >>,
       << <<97,771>>, <<97>> >>, << <<97,768>>, <<97>> >>,
       << <<97,803>>, <<97>> >>, << <<97,769>>, <<97>> >>,
       << <<97,777>>, <<97>> >>, << <<234,771>>, <<101>> >>,
       << <<234,803>>, <<101>> >>, << <<234,768>>, <<101>> >>,
       << <<234,769>>, <<101>> >>, << <<101,803>>, <<101>> >>,
       << <<101,768>>, <<101>> >>, << <<101,769>>, <<101>> >>,
       << <<101,771>>, <<101>> >>, << <<101,777>>, <<101>> >>,
       << <<105,768>>, <<105>> >>, << <<105,803>>, <<105>> >>,
       << <<303>>, <<105>> >>, << <<105,769>>, <<105>> >>,
       << <<105,771>>, <<105>> >>, << <<105,777>>, <<105>> >>,
       << <<432,771>>, <<117>> >>, << <<432,769>>, <<117>> >>,
       << <<432,803>>, <<117>> >>, << <<117,771>>, <<117>> >>,
       << <<117,768>>, <<117>> >>, << <<117,777>>, <<117>> >>,
       << <<117,803>>, <<117>> >>, << <<117,769>>, <<117>> >> >>

RECURSIVE ApplyReplacements(_, _)
ApplyReplacements(s, k) ==
    IF k > Len(Replacements) \/ s = <<>> THEN s
    ELSE ApplyReplacements(ReplaceAll(s, Replacements[k][1], Replacements[k][2]), k + 1)

removeAccent(s) ==
    LET t == ApplyReplacements(s, 1) IN
    [k \in DOMAIN t |-> removeAccentChar(t[k])]

(***************************************************************************)
(* streetNameParser and the parser service it calls                        *)
(***************************************************************************)
Space == <<32>>
Percent20 == <<37, 50, 48>>

\* the text= parameter of the URL of lines 809-814
ParserQuery(searchText) ==
    LET a == ReplaceAll(searchText, Space, Percent20)
        b == ReplaceAll(a, <<40>>, Percent20)
        c == ReplaceAll(b, <<41>>, Percent20)
        d == ReplaceAll(c, <<39>>, Percent20)
    IN  ReplaceAll(d, <<42>>, Percent20)

\* "duong "
DuongPrefix == <<100, 117, 111, 110, 103, 32>>

\* The service is outside the repository.  A mock is a function of the
\* query.  "strip" answers one solution whose street is the decoded text
\* without a leading "duong " (scenario 1 of the specification); "echo"
\* answers the decoded text as the street.  The others answer what the
\* name suggests: a housenumber before or after the street, a housenumber
\* for the name "a" only, no solution, a solution without classifications,
\* a solution without a street, a street in the second solution only, a
\* body that is no JSON, a body that cannot be read, and a failing request.
Stripped(query) ==
    LET text == ReplaceAll(query, Percent20, Space)
    IN  IF HasPrefix(text, DuongPrefix)
        THEN SubSeq(text, Len(DuongPrefix) + 1, Len(text))
        ELSE text

Solution(classifications) == [Score |-> 1, Classifications |-> classifications]
Street(value) == [Value |-> value, Label |-> "street"]
HouseNumber == [Value |-> <<49>>, Label |-> "housenumber"]
City == [Value |-> <<120>>, Label |-> "city"]
Json(solutions) == [kind |-> "json", Solutions |-> solutions]

MockReply(m, query) ==
    LET text == ReplaceAll(query, Percent20, Space)
        stripped == Stripped(query)
    IN  CASE m = "strip" -> Json(<< Solution(<< Street(stripped) >>) >>)
          [] m = "echo" -> Json(<< Solution(<< Street(text) >>) >>)
          [] m = "housenumber_first" ->
               Json(<< Solution(<< HouseNumber, Street(stripped) >>) >>)
          [] m = "housenumber_last" ->
               Json(<< Solution(<< City, Street(stripped), HouseNumber >>) >>)
          [] m = "housenumber_a" ->
               IF stripped = <<97>>
               THEN Json(<< Solution(<< Street(stripped), HouseNumber >>) >>)
               ELSE Json(<< Solution(<< City, Street(stripped) >>) >>)
          [] m = "no_solution" -> Json(<<>>)
          [] m = "no_classification" -> Json(<< Solution(<<>>) >>)
          [] m = "no_street" -> Json(<< Solution(<< City >>) >>)
          [] m = "second_solution" ->
               Json(<< Solution(<< City >>), Solution(<< Street(stripped) >>) >>)
          [] m = "capital" ->
               IF stripped = <<97, 45, 45, 98>>
               THEN Json(<< Solution(<< Street(<<65>>) >>) >>)
               ELSE Json(<< Solution(<< Street(stripped) >>) >>)
          [] m = "malformed" -> [kind |-> "malformed", Solutions |-> <<>>]
          [] m = "read_error" -> [kind |-> "read_error", Solutions |-> <<>>]
          [] OTHER -> [kind |-> "http_error", Solutions |-> <<>>]

\* the loop returning the street as soon as it meets one
RECURSIVE ScanClassificationsFirstStreet(_, _, _)
ScanClassificationsFirstStreet(classifications, k, streetName) ==
    IF k > Len(classifications) THEN streetName
    ELSE IF classifications[k].Label = "housenumber" THEN <<>>
    ELSE IF classifications[k].Label = "street" THEN classifications[k].Value
    ELSE ScanClassificationsFirstStreet(classifications, k + 1, streetName)

\* the loop of lines 837-843 from classification k on
RECURSIVE ScanClassifications(_, _, _)
ScanClassifications(classifications, k, streetName) ==
    IF k > Len(classifications) THEN streetName
    ELSE IF classifications[k].Label = "housenumber" THEN <<>>
    ELSE IF classifications[k].Label = "street"
         THEN ScanClassifications(classifications, k + 1, classifications[k].Value)
         ELSE ScanClassifications(classifications, k + 1, streetName)

\* what json.Unmarshal leaves in responseObject (line 833): the solutions
\* of a JSON body, nothing of a body that is no JSON; its error is not
\* looked at
Unmarshal(response) ==
    IF response.kind = "json" THEN response.Solutions ELSE <<>>

\* [exit |-> the process exits (lines 821-830), name |-> the result]
streetNameParser(m, searchText) ==
    LET response == MockReply(m, ParserQuery(searchText))
        Solutions == Unmarshal(response)
    IN
    IF response.kind \in {"http_error", "read_error"}
    THEN [exit |-> TRUE, name |-> <<>>]
    ELSE IF Len(Solutions) > 0
            /\ Len(Solutions[1].Classifications) > 0
         THEN [exit |-> FALSE,
               name |-> ScanClassifications(Solutions[1].Classifications, 1, <<>>)]
         ELSE [exit |-> FALSE, name |-> <<>>]

(***************************************************************************)
(* Geometry: github.com/paulmach/go.geo as the code uses it                *)
(***************************************************************************)
\* the square of Point.DistanceFrom
Dist2(p, q) == (p[1] - q[1]) * (p[1] - q[1]) + (p[2] - q[2]) * (p[2] - q[2])

\* Point.DistanceFrom, for the pairs whose distance is a whole number of
\* units (no other pair occurs in the inputs of this model)
Dist(p, q) ==
    LET dx == Abs(p[1] - q[1])
        dy == Abs(p[2] - q[2])
    IN  IF dy = 0 THEN dx
        ELSE IF dx = 0 THEN dy
        ELSE CHOOSE r \in 0..(dx + dy) : r * r = dx * dx + dy * dy

First(path) == path[1]
Last(path) == path[Len(path)]

\* Path.Distance: the planar length
RECURSIVE PathDistance(_)
PathDistance(path) ==
    IF Len(path) < 2 THEN 0
    ELSE Dist(path[1], path[2]) + PathDistance(Tail(path))

Min(a, b) == IF a < b THEN a ELSE b
Max(a, b) == IF a > b THEN a ELSE b

RECURSIVE MinOf(_, _)
MinOf(path, c) ==
    IF Len(path) = 1 THEN path[1][c] ELSE Min(path[1][c], MinOf(Tail(path), c))

RECURSIVE MaxOf(_, _)
MaxOf(path, c) ==
    IF Len(path) = 1 THEN path[1][c] ELSE Max(path[1][c], MaxOf(Tail(path), c))

\* Bound.Intersects on the bounds of two point sequences
BoundIntersects(ps, qs) ==
    ~ (\/ MaxOf(ps, 1) < MinOf(qs, 1)
       \/ MinOf(ps, 1) > MaxOf(qs, 1)
       \/ MaxOf(ps, 2) < MinOf(qs, 2)
       \/ MinOf(ps, 2) > MaxOf(qs, 2))

\* Line.Intersects of the line la-lb with the line ma-mb
LineIntersects(la, lb, ma, mb) ==
    LET den == (mb[2] - ma[2]) * (lb[1] - la[1]) - (mb[1] - ma[1]) * (lb[2] - la[2])
        U1 == (mb[1] - ma[1]) * (la[2] - ma[2]) - (mb[2] - ma[2]) * (la[1] - ma[1])
        U2 == (lb[1] - la[1]) * (la[2] - ma[2]) - (lb[2] - la[2]) * (la[1] - ma[1])
    IN  IF den = 0
        THEN U1 = 0 /\ U2 = 0 /\ BoundIntersects(<<la, lb>>, <<ma, mb>>)
        ELSE IF den > 0
             THEN 0 <= U1 /\ U1 <= den /\ 0 <= U2 /\ U2 <= den
             ELSE den <= U1 /\ U1 <= 0 /\ den <= U2 /\ U2 <= 0

\* Path.IntersectsPath: the bounds, then every pair of segments
IntersectsPath(p, q) ==
    /\ BoundIntersects(p, q)
    /\ \E a \in 1..(Len(p) - 1) : \E b \in 1..(Len(q) - 1) :
          LineIntersects(p[a], p[a + 1], q[b], q[b + 1])

isIntersection(path1, path2) ==
    LineIntersects(First(path1), Last(path1), First(path2), Last(path2))

createPathVector(pos1, pos2) == [dX |-> pos2[1] - pos1[1], dY |-> pos2[2] - pos1[2]]

\* the test without "cos > 0"
isTwoPathsSameDirectionNoSign(a, b) ==
    LET dividend == a.dX * b.dX + a.dY * b.dY
        divisor == Dist(<<0, 0>>, <<a.dX, a.dY>>) * Dist(<<0, 0>>, <<b.dX, b.dY>>)
    IN  divisor # 0 /\ dividend <= divisor

\* cos > 0 && cos <= 1 with cos = dividend / divisor; a zero divisor gives
\* NaN, for which both comparisons are false
isTwoPathsSameDirection(a, b) ==
    LET dividend == a.dX * b.dX + a.dY * b.dY
        divisor == Dist(<<0, 0>>, <<a.dX, a.dY>>) * Dist(<<0, 0>>, <<b.dX, b.dY>>)
    IN  dividend > 0 /\ dividend <= divisor

\* the squares of the four distances the code compares
getShortestDistance(Path1, Path2) ==
    Min(Min(Dist2(First(Path1), First(Path2)), Dist2(First(Path1), Last(Path2))),
        Min(Dist2(Last(Path1), First(Path2)), Dist2(Last(Path1), Last(Path2))))

shortestDistanceWhenSameDirection(Path1, Path2) ==
    Min(Dist2(Last(Path1), First(Path2)), Dist2(First(Path1), Last(Path2)))

(***************************************************************************)
(* Slices of *street: sequences of indices into the heap h                 *)
(***************************************************************************)
\* Path.Distance of the street a pointer refers to
Length(h, id) == PathDistance(h[id].Path)

\* removeStreet giving back the list as it is
removeStreetNothing(s, index) == s

\* removeStreet: a copy without the element at the 0-based index
removeStreet(s, index) ==
    IF index < 0 \/ index >= Len(s) THEN s
    ELSE SubSeq(s, 1, index) \o SubSeq(s, index + 2, Len(s))

Swap(s, a, b) == [s EXCEPT ![a] = s[b], ![b] = s[a]]

\* the loops of sortStreetsDescLength, with the 1-based i and j
RECURSIVE SortInner(_, _, _, _)
SortInner(h, s, a, b) ==
    IF b > Len(s) THEN s
    ELSE IF Length(h, s[b]) > Length(h, s[a])
         THEN SortInner(h, Swap(s, a, b), a, b + 1)
         ELSE SortInner(h, s, a, b + 1)

RECURSIVE SortOuter(_, _, _)
SortOuter(h, s, a) ==
    IF a > Len(s) - 1 THEN s ELSE SortOuter(h, SortInner(h, s, a, a), a + 1)

sortStreetsDescLength(h, s) == SortOuter(h, s, 1)

\* getLongestStreetIndex: the 0-based index of the first strictly longest
RECURSIVE LongestFrom(_, _, _, _, _)
LongestFrom(h, s, k, distance, index) ==
    IF k > Len(s) THEN index
    ELSE IF distance < Length(h, s[k])
         THEN LongestFrom(h, s, k + 1, Length(h, s[k]), k - 1)
         ELSE LongestFrom(h, s, k + 1, distance, index)

getLongestStreetIndex(h, s) == LongestFrom(h, s, 1, 0, 0)

\* first.DistanceFrom(last) == 0, the test of removeRoundabout
IsLoop(h, id) == Dist2(First(h[id].Path), Last(h[id].Path)) = 0

\* removeRoundabout removing nothing
removeRoundaboutNothing(h, s) == s

\* removeRoundabout from the 1-based position k on
RECURSIVE RemoveRoundaboutFrom(_, _, _)
RemoveRoundaboutFrom(h, s, k) ==
    IF k > Len(s) THEN s
    ELSE IF IsLoop(h, s[k])
         THEN RemoveRoundaboutFrom(h, removeStreet(s, k - 1), k)
         ELSE RemoveRoundaboutFrom(h, s, k + 1)

removeRoundabout(h, s) == RemoveRoundaboutFrom(h, s, 1)

\* the squares of the distances; 0.0 for an empty list
RECURSIVE MinOver(_, _, _, _)
MinOver(h, current, s, sameDirection) ==
    LET d == IF sameDirection
             THEN shortestDistanceWhenSameDirection(h[current].Path, h[s[1]].Path)
             ELSE getShortestDistance(h[current].Path, h[s[1]].Path)
    IN  IF Len(s) = 1 THEN d ELSE Min(d, MinOver(h, current, Tail(s), sameDirection))

\* the distance to the first street of the list only
shortestDistanceToFirstStreet(h, current, s) ==
    IF Len(s) < 1 THEN 0 ELSE getShortestDistance(h[current].Path, h[s[1]].Path)

shortestDistanceToOtherStreets(h, current, s) ==
    IF Len(s) < 1 THEN 0 ELSE MinOver(h, current, s, FALSE)

shortestDistanceToOtherSameDirectionStreets(h, current, s) ==
    IF Len(s) < 1 THEN 0 ELSE MinOver(h, current, s, TRUE)

\* Emit with the append replaced by an assignment
EmitOverwriting(m, key, id) ==
    [x \in DOMAIN m \cup {key} |-> IF x = key THEN <<id>> ELSE m[x]]

\* m[key] = append(m[key], id), creating the entry when it is missing
Emit(m, key, id) ==
    IF key \in DOMAIN m
    THEN [m EXCEPT ![key] = Append(@, id)]
    ELSE [x \in DOMAIN m \cup {key} |-> IF x = key THEN <<id>> ELSE m[x]]

\* m[key] = []*street{id}
Assign(m, key, id) ==
    [x \in DOMAIN m \cup {key} |-> IF x = key THEN <<id>> ELSE m[x]]

EmptyMap == << >>

\* the streets a map holds
Ids(m) == UNION {Range(m[key]) : key \in DOMAIN m}


(***************************************************************************)
(* The inputs: the rows of the staging store, and the parser mock          *)
(***************************************************************************)
\* A row of loadStreetsFromDatabase: the nodes of the way in order (Valid
\* is FALSE for the NULL of a way without nodes in the file), the name tag
\* and the oneway tag ("" for NULL).  Rows come in ascending way id.
Row(id, valid, nodes, name, oneway) ==
    [id |-> id, Valid |-> valid, nodes |-> nodes, name |-> name, oneway |-> oneway]

\* a way along the parallel of latitude 0, through the longitudes xs
OnAxis(xs) == [k \in DOMAIN xs |-> <<xs[k], 0>>]

NameA == <<97>>
\* "Kiệt" and "Đường Cầu"
NameKiet == <<75, 105, 7879, 116>>
NameDuongCau == <<272, 432, 7901, 110, 103, 32, 67, 7847, 117>>
\* "a--b"
NameADashes == <<97, 45, 45, 98>>

\* The ways an extract is drawn from.  Two-way pieces of the street "a"
\* around the piece 0..40 (a continuation at each end, a piece lying
\* inside it, a piece 60 away), one-way pieces around the lane 0..80 (a
\* continuation at each end, the opposite lane, a lane 65 away, a closed
\* loop), and a way whose name starts with "Đường Cầu".  Ways 13 to 15
\* are the ways S1 and S2 are written to drop: an ignored name, no nodes
\* in the file, one node.  Way 16 continues the piece 0..40 and comes
\* back to its first node on the way.  Way 17 is a street whose name holds
\* two hyphens.  Way 18 runs from 0 to 100 and comes back to 10: it passes
\* over the piece 40..60, its chord 0..10 does not.
Catalogue ==
    << Row(1, TRUE, OnAxis(<<0, 40>>), NameA, "no"),
       Row(2, TRUE, OnAxis(<<40, 60>>), NameA, "no"),
       Row(3, TRUE, OnAxis(<<-20, 0>>), NameA, "no"),
       Row(4, TRUE, OnAxis(<<15, 25>>), NameA, "no"),
       Row(5, TRUE, OnAxis(<<100, 140>>), NameA, ""),
       Row(6, TRUE, OnAxis(<<0, 80>>), NameA, "yes"),
       Row(7, TRUE, OnAxis(<<80, 100>>), NameA, "yes"),
       Row(8, TRUE, OnAxis(<<-20, 0>>), NameA, "yes"),
       Row(9, TRUE, OnAxis(<<80, 0>>), NameA, "yes"),
       Row(10, TRUE, OnAxis(<<145, 185>>), NameA, "yes"),
       Row(11, TRUE, OnAxis(<<50, 60, 50>>), NameA, "yes"),
       Row(12, TRUE, OnAxis(<<0, 40>>), NameDuongCau, "no"),
       Row(13, TRUE, OnAxis(<<0, 40>>), NameKiet, "no"),
       Row(14, FALSE, <<>>, NameA, "no"),
       Row(15, TRUE, OnAxis(<<40>>), NameA, "no"),
       Row(16, TRUE, OnAxis(<<40, 45, 40, 42>>), NameA, "no"),
       Row(17, TRUE, OnAxis(<<0, 40>>), NameADashes, "no"),
       Row(18, TRUE, OnAxis(<<0, 100, 10>>), NameA, "no") >>

\* the ways every extract holds, and the ways it may hold
Dropped == {13, 14, 15}
Optional == DOMAIN Catalogue \ Dropped

\* the most optional ways of one extract
MaxWays == 3

\* the rows of the ways with the ids in S, in ascending id
RECURSIVE RowsOf(_)
RowsOf(S) ==
    IF S = {} THEN <<>>
    ELSE LET m == CHOOSE x \in S : \A y \in S : x <= y
         IN  <<Catalogue[m]>> \o RowsOf(S \ {m})

Extracts ==
    {RowsOf(S \cup Dropped) : S \in {T \in SUBSET Optional : Cardinality(T) <= MaxWays}}

(***************************************************************************)
(* The state of a run                                                      *)
(***************************************************************************)
VARIABLES
    ways,       \* the rows of the staging store
    mock,       \* the behaviour of the parser service
    argc,       \* len(c.Args())
    queryError, \* the query of loadStreetsFromDatabase fails
    tempFile,   \* the staging file: "opened", "written" or "removed"
    printed,    \* the records printed so far
    pc,         \* the place of the run in StreetMerge and joinStreets
    street,     \* the heap of street structs; a *street is an index
    next,       \* the 1-based position of the loop of lines 174-215
    nameMap, groupDistanceNameMap, groupDirectionNameMap,
    mergedStreetSameDirection, mergeLaneSameDirection, mergedStreet,
    ret,        \* the result of joinStreets
    todo,       \* the keys the running range loop has still to visit
    strName, strs, i, normName, baseStreet, group, streetGroup,
    absorbed,   \* the appends so far: which street went onto which, in
                \* which stage (in S5 the keys of the map `merged`)
    decision,   \* the latest pass through the body of a stitching loop:
                \* the stage, the base and the candidate with their paths
                \* when the branch was chosen, and the branch
    roundabouts, \* the streets that were closed loops when S7 started
    skips,      \* the candidates the running loop of S7 has passed over at
                \* lines 1780-1787
    asked,      \* the queries sent to the parser service, by street
    earlier     \* the records an earlier run on the same rows returned

vars == <<ways, mock, argc, queryError, tempFile, printed, pc, street, next, nameMap, groupDistanceNameMap,
          groupDirectionNameMap, mergedStreetSameDirection,
          mergeLaneSameDirection, mergedStreet, ret, todo, strName, strs, i,
          normName, baseStreet, group, streetGroup, absorbed, decision,
          roundabouts, skips, asked, earlier>>

maps == <<nameMap, groupDistanceNameMap, groupDirectionNameMap,
          mergedStreetSameDirection, mergeLaneSameDirection, mergedStreet>>

ghosts == <<absorbed, decision, roundabouts, skips, asked, earlier>>

NoDecision == [stage |-> "none"]
NoRun == [run |-> FALSE]

locals == <<strName, strs, i, normName, baseStreet, group, streetGroup>>

NoLocals ==
    /\ strName = <<>> /\ strs = <<>> /\ i = 0 /\ normName = <<>>
    /\ baseStreet = 0 /\ group = 0 /\ streetGroup = <<>>

\* the state in which generateStreetsFromWays starts on the rows
Start ==
    /\ street = <<>>
    /\ next = 1
    /\ nameMap = EmptyMap /\ groupDistanceNameMap = EmptyMap
    /\ groupDirectionNameMap = EmptyMap /\ mergedStreetSameDirection = EmptyMap
    /\ mergeLaneSameDirection = EmptyMap /\ mergedStreet = EmptyMap
    /\ ret = <<>>
    /\ todo = {}
    /\ NoLocals
    /\ absorbed = {}
    /\ decision = NoDecision
    /\ roundabouts = {}
    /\ skips = {}
    /\ asked = << >>

\* the behaviours of the parser service a run may meet
Mocks ==
    {"strip", "housenumber_first", "housenumber_last", "housenumber_a",
     "no_solution", "no_classification", "no_street", "second_solution",
     "malformed", "read_error", "http_error"}

\* StreetMerge at line 145: the name of the staging file is chosen, its
\* removal is deferred (line 139) and the connection is open on it; the
\* store is still empty.  extracts is what the file of the argument may
\* hold.
InitWith(extracts, mocks) ==
    /\ ways = <<>>
    /\ extracts # {}
    /\ mock \in mocks
    /\ argc \in 0..2
    /\ queryError \in BOOLEAN
    /\ tempFile = "opened"
    /\ printed = <<>>
    /\ pc = "parsePBF"
    /\ earlier = NoRun
    /\ Start

Init == InitWith(Extracts, Mocks)

(***************************************************************************)
(* parsePBF, lines 488-524: os.Exit(1) unless there is one argument, then  *)
(* the ways and nodes of the file are written to the staging store         *)
(***************************************************************************)
parsePBF ==
    /\ pc = "parsePBF"
    /\ IF argc # 1
       THEN pc' = "exit" /\ UNCHANGED <<tempFile, ways>>
       ELSE /\ pc' = "generateStreetsFromWays"
            /\ tempFile' = "written"
            /\ ways' \in Extracts
    /\ UNCHANGED <<mock, argc, queryError, printed, street, next, maps, ret,
                   todo, locals, ghosts>>

(***************************************************************************)
(* S1: generateStreetsFromWays                                             *)
(***************************************************************************)
\* the callback without the test len(wayNodes) <= 1 of line 465
RECURSIVE StreetsFromRowsAnyLength(_, _)
StreetsFromRowsAnyLength(rows, k) ==
    IF k > Len(rows) THEN <<>>
    ELSE LET row == rows[k] IN
         IF ~ row.Valid
         THEN StreetsFromRowsAnyLength(rows, k + 1)
         ELSE << [Path |-> row.nodes, Name |-> row.name,
                  Oneway |-> row.oneway, WayId |-> row.id] >>
              \o StreetsFromRowsAnyLength(rows, k + 1)

\* the callback of lines 430-483 on the rows from position k on
RECURSIVE StreetsFromRows(_, _)
StreetsFromRows(rows, k) ==
    IF k > Len(rows) THEN <<>>
    ELSE LET row == rows[k] IN
         IF ~ row.Valid \/ Len(row.nodes) <= 1
         THEN StreetsFromRows(rows, k + 1)
         ELSE << [Path |-> row.nodes, Name |-> row.name,
                  Oneway |-> row.oneway, WayId |-> row.id] >>
              \o StreetsFromRows(rows, k + 1)

\* log.Fatal of lines 414-416 when the query fails
generateStreetsFromWays ==
    /\ pc = "generateStreetsFromWays"
    /\ IF queryError
       THEN pc' = "exit" /\ UNCHANGED street
       ELSE /\ street' = StreetsFromRows(ways, 1)
            /\ pc' = "normalize"
    /\ UNCHANGED <<ways, mock, argc, queryError, tempFile, printed, next, maps, ret, todo, locals, ghosts>>

(***************************************************************************)
(* S2: the loop of lines 174-215 of joinStreets, one street per step       *)
(***************************************************************************)
\* "đường"
DuongWithSign == <<273, 432, 7901, 110, 103>>

\* "kiet", "hem", "cau", "vong xuyen" and "ngo chu huy man"
Kiet == <<107, 105, 101, 116>>
Hem == <<104, 101, 109>>
Cau == <<99, 97, 117>>
VongXuyen == <<118, 111, 110, 103, 32, 120, 117, 121, 101, 110>>
NgoChuHuyMan == <<110, 103, 111, 32, 99, 104, 117, 32, 104, 117, 121, 32, 109, 97, 110>>

\* no name is ignored
IsIgnoredNameNever(folded) == FALSE

\* lines 183-193: the street is ignored
IsIgnoredName(folded) ==
    \/ HasPrefix(folded, Kiet)
    \/ HasPrefix(folded, Hem)
    \/ HasPrefix(folded, Cau)
    \/ HasPrefix(folded, VongXuyen)
    \/ folded = NgoChuHuyMan

\* lines 175-201: [skip, exit, name] for the raw name of a street, and the
\* query that was sent to the service (called is FALSE when none was)
NormalizeName(m, raw) ==
    LET normNameHasSign == ToLower(raw)
        folded == removeAccent(normNameHasSign)
        searchText == IF ~ HasPrefix(normNameHasSign, DuongWithSign)
                      THEN DuongPrefix \o folded
                      ELSE folded
        parsed == streetNameParser(m, searchText)
    IN  IF IsIgnoredName(folded)
        THEN [skip |-> TRUE, exit |-> FALSE, name |-> <<>>,
              called |-> FALSE, query |-> <<>>]
        ELSE [skip |-> parsed.name = <<>>, exit |-> parsed.exit, name |-> parsed.name,
              called |-> TRUE, query |-> ParserQuery(searchText)]

normalize ==
    /\ pc = "normalize"
    /\ IF next > Len(street)
       THEN /\ pc' = "groupDistance"
            /\ todo' = DOMAIN nameMap
            /\ UNCHANGED <<street, next, nameMap, asked>>
       ELSE LET r == NormalizeName(mock, street[next].Name) IN
            /\ asked' = IF r.called THEN asked @@ (next :> r.query) ELSE asked
            /\ IF r.exit
               THEN /\ pc' = "exit"
                    /\ UNCHANGED <<street, next, nameMap, todo>>
               ELSE /\ next' = next + 1
                    /\ street' = IF r.skip THEN street
                                 ELSE [street EXCEPT ![next].Name = r.name]
                    /\ nameMap' = IF r.skip THEN nameMap ELSE Emit(nameMap, r.name, next)
                    /\ UNCHANGED <<pc, todo>>
    /\ UNCHANGED <<ways, mock, argc, queryError, tempFile, printed, groupDistanceNameMap,
                   groupDirectionNameMap, mergedStreetSameDirection,
                   mergeLaneSameDirection, mergedStreet, ret, locals,
                   absorbed, decision, roundabouts, skips, earlier>>

(***************************************************************************)
(* S3: the proximity groups, lines 218-265.  The range over nameMap visits *)
(* the keys in any order; one step of the for loop of line 234 is one step *)
(* of the model: the body, then i++ and the test i < len(strs).            *)
(***************************************************************************)
\* 0.003 degree, line 218
distanceGroup == 60

GroupSeparator == <<95, 95>>
DirectionSeparator == <<45, 45>>

\* the loop test written i <= len(strs)
AfterBodyInclusive(loop, range, strs2, i2) ==
    IF i2 + 1 <= Len(strs2) THEN loop ELSE range

\* where the run goes after the body of a for loop left i at i2
AfterBody(loop, range, strs2, i2) ==
    IF i2 + 1 < Len(strs2) THEN loop ELSE range

groupDistanceRange ==
    /\ pc = "groupDistance"
    /\ \E key \in todo :
          LET sorted == sortStreetsDescLength(street, nameMap[key]) IN
          /\ todo' = todo \ {key}
          /\ strName' = key
          /\ strs' = sorted
          /\ normName' = ToLower(street[sorted[1]].Name)
          /\ baseStreet' = 0
          /\ group' = 1
          /\ streetGroup' = <<>>
          /\ i' = 0
          /\ pc' = "groupDistanceLoop"
    /\ UNCHANGED <<ways, mock, argc, queryError, tempFile, printed, street, next, maps, ret, ghosts>>

groupDistanceLoop ==
    /\ pc = "groupDistanceLoop"
    /\ LET currentStreet == strs[i + 1]
           near == shortestDistanceToOtherStreets(street, currentStreet, streetGroup)
                     < distanceGroup * distanceGroup
           key == ToLower(street[strs[1]].Name) \o GroupSeparator \o Itoa(group)
           strs2 == IF i = 0 THEN strs
                    ELSE IF near THEN removeStreet(strs, i)
                    ELSE IF i = Len(strs) - 1 THEN removeStreet(strs, 0)
                    ELSE strs
           i2 == IF i = 0 THEN 0
                 ELSE IF near THEN 0
                 ELSE IF i = Len(strs) - 1 THEN -1
                 ELSE i
       IN  /\ IF i = 0
              THEN /\ baseStreet' = strs[1]
                   /\ normName' = key
                   /\ group' = group + 1
                   /\ streetGroup' = <<strs[1]>>
                   /\ groupDistanceNameMap' = Assign(groupDistanceNameMap, key, strs[1])
              ELSE IF near
              THEN /\ streetGroup' = Append(streetGroup, currentStreet)
                   /\ groupDistanceNameMap' =
                         Emit(groupDistanceNameMap, normName, currentStreet)
                   /\ UNCHANGED <<baseStreet, normName, group>>
              ELSE UNCHANGED <<baseStreet, normName, group, streetGroup,
                               groupDistanceNameMap>>
           /\ strs' = strs2
           /\ i' = i2 + 1
           /\ pc' = AfterBody("groupDistanceLoop", "groupDistance", strs2, i2)
    /\ UNCHANGED <<ways, mock, argc, queryError, tempFile, printed, street, next, nameMap, groupDirectionNameMap,
                   mergedStreetSameDirection, mergeLaneSameDirection, mergedStreet,
                   ret, todo, strName, ghosts>>

groupDistanceDone ==
    /\ pc = "groupDistance"
    /\ todo = {}
    /\ pc' = "groupDirection"
    /\ todo' = DOMAIN groupDistanceNameMap
    /\ strName' = <<>> /\ strs' = <<>> /\ i' = 0 /\ normName' = <<>>
    /\ baseStreet' = 0 /\ group' = 0 /\ streetGroup' = <<>>
    /\ UNCHANGED <<ways, mock, argc, queryError, tempFile, printed, street, next, maps, ret, ghosts>>

(***************************************************************************)
(* S4: the direction groups, lines 267-354                                 *)
(***************************************************************************)
PathVector(h, id) == createPathVector(First(h[id].Path), Last(h[id].Path))

groupDirectionRange ==
    /\ pc = "groupDirection"
    /\ \E key \in todo :
          /\ todo' = todo \ {key}
          /\ strName' = key
          /\ strs' = sortStreetsDescLength(street, groupDistanceNameMap[key])
          /\ normName' = key
          /\ baseStreet' = 0
          /\ group' = 0
          /\ i' = 0
          /\ pc' = "groupDirectionLoop"
    /\ UNCHANGED <<ways, mock, argc, queryError, tempFile, printed, street, next, maps, ret, streetGroup, ghosts>>

groupDirectionLoop ==
    /\ pc = "groupDirectionLoop"
    /\ LET base == IF i = 0 THEN strs[1] ELSE baseStreet
           currentStreet == strs[i + 1]
           oneway == street[currentStreet].Oneway = "yes"
           seed == oneway /\ (Len(strs) <= 1 \/ i = 0)
           key == strName \o DirectionSeparator \o Itoa(group)
           same == isTwoPathsSameDirection(PathVector(street, base),
                                           PathVector(street, currentStreet))
           \* the list and the index before the test of lines 330 and 348
           admitted == IF oneway THEN ~ seed /\ same ELSE TRUE
           strs1 == IF seed THEN strs
                    ELSE IF admitted THEN removeStreet(strs, i) ELSE strs
           i1 == IF seed THEN i ELSE IF admitted THEN i - 1 ELSE i
           atLast == ~ seed /\ i1 = Len(strs1) - 1
           strs2 == IF atLast THEN removeStreet(strs1, 0) ELSE strs1
           i2 == IF atLast THEN -1 ELSE i1
       IN  /\ baseStreet' = base
           /\ IF seed
              THEN /\ normName' = key
                   /\ group' = group + 1
                   /\ groupDirectionNameMap' = Emit(groupDirectionNameMap, key, base)
              ELSE IF oneway
              THEN /\ groupDirectionNameMap' =
                         IF same THEN Emit(groupDirectionNameMap, normName, currentStreet)
                         ELSE groupDirectionNameMap
                   /\ UNCHANGED <<normName, group>>
              ELSE /\ groupDirectionNameMap' =
                         Emit(groupDirectionNameMap, strName, currentStreet)
                   /\ UNCHANGED <<normName, group>>
           /\ strs' = strs2
           /\ i' = i2 + 1
           /\ pc' = AfterBody("groupDirectionLoop", "groupDirection", strs2, i2)
    /\ UNCHANGED <<ways, mock, argc, queryError, tempFile, printed, street, next, nameMap, groupDistanceNameMap,
                   mergedStreetSameDirection, mergeLaneSameDirection, mergedStreet,
                   ret, todo, strName, streetGroup, ghosts>>

groupDirectionDone ==
    /\ pc = "groupDirection"
    /\ todo = {}
    /\ pc' = "mergeStreetSameDirection"
    /\ todo' = DOMAIN groupDirectionNameMap
    /\ strName' = <<>> /\ strs' = <<>> /\ i' = 0 /\ normName' = <<>>
    /\ baseStreet' = 0 /\ group' = 0 /\ streetGroup' = <<>>
    /\ UNCHANGED <<ways, mock, argc, queryError, tempFile, printed, street, next, maps, ret, ghosts>>

(***************************************************************************)
(* The append of S5, S6 and S7.  Path.First and Path.Last return a pointer *)
(* into the point slice of the path, so `match` is a slot of the base: the *)
(* first or the last one.  reversePath swaps the points in place, and the  *)
(* loop compares each point of the candidate with what the slot holds      *)
(* after the reversals.  Path.Push appends past the slot, so the value the *)
(* slot holds does not change while the loop runs.                         *)
(***************************************************************************)
reversePath(h, id) == [h EXCEPT ![id].Path = Reverse(@)]

\* One branch: match taken at the first (matchFirst) or the last slot of
\* the base b, the base and the candidate c flipped as the branch says,
\* the points of c pushed onto b, and both flipped back.
MergeInto(h, b, c, flipBase, flipCandidate, matchFirst) ==
    LET slot == IF matchFirst THEN 1 ELSE Len(h[b].Path)
        h1 == IF flipBase THEN reversePath(h, b) ELSE h
        h2 == IF flipCandidate THEN reversePath(h1, c) ELSE h1
        match == h2[b].Path[slot]
        Kept(point) == point # match
        h3 == [h2 EXCEPT ![b].Path = @ \o SelectSeq(h2[c].Path, Kept)]
        h4 == IF flipBase THEN reversePath(h3, b) ELSE h3
    IN  IF flipCandidate THEN reversePath(h4, c) ELSE h4

\* the four branches: base.last-candidate.first, base.first-candidate.last,
\* base.last-candidate.last and base.first-candidate.first
Merge(h, b, c, branch) ==
    CASE branch = "last-first" -> MergeInto(h, b, c, FALSE, FALSE, FALSE)
      [] branch = "first-last" -> MergeInto(h, b, c, TRUE, TRUE, TRUE)
      [] branch = "last-last" -> MergeInto(h, b, c, FALSE, TRUE, FALSE)
      [] branch = "first-first" -> MergeInto(h, b, c, TRUE, FALSE, TRUE)

\* the square of the distance a branch joins over
BranchDistance(h, b, c, branch) ==
    CASE branch = "last-first" -> Dist2(Last(h[b].Path), First(h[c].Path))
      [] branch = "first-last" -> Dist2(First(h[b].Path), Last(h[c].Path))
      [] branch = "last-last" -> Dist2(Last(h[b].Path), Last(h[c].Path))
      [] branch = "first-first" -> Dist2(First(h[b].Path), First(h[c].Path))

\* 0.003 degree: lines 1127, 1430 and 1722
distanceTolerance == 60

\* the chain without the tests against distanceTolerance
ChosenBranchAnyDistance(h, b, c, sameDirectionOnly, shortest) ==
    LET Hit(branch) == BranchDistance(h, b, c, branch) = shortest
        same == isTwoPathsSameDirection(PathVector(h, b), PathVector(h, c))
    IN  IF sameDirectionOnly
        THEN IF Hit("last-first") /\ same THEN "last-first"
             ELSE IF Hit("first-last") /\ same THEN "first-last"
             ELSE "none"
        ELSE IF Hit("last-first") THEN "last-first"
             ELSE IF Hit("first-last") THEN "first-last"
             ELSE IF Hit("last-last") THEN "last-last"
             ELSE IF Hit("first-first") THEN "first-first"
             ELSE "none"

\* The if / else-if chain of a candidate.  sameDirectionOnly is the chain of
\* a oneway candidate in S5 and S6 (two branches, both asking for the same
\* direction, against the same-direction minimum); otherwise the four
\* branches against the minimum over the four pairings.  "emit" is the
\* final else whose condition holds, "none" the final else otherwise.
ChosenBranch(h, b, c, sameDirectionOnly, shortest) ==
    LET Hit(branch) == BranchDistance(h, b, c, branch) = shortest
        below == shortest < distanceTolerance * distanceTolerance
        same == isTwoPathsSameDirection(PathVector(h, b), PathVector(h, c))
    IN  IF sameDirectionOnly
        THEN IF below /\ Hit("last-first") /\ same THEN "last-first"
             ELSE IF below /\ Hit("first-last") /\ same THEN "first-last"
             ELSE IF (Hit("last-first") \/ Hit("first-last")) /\ ~ below THEN "emit"
             ELSE "none"
        ELSE IF Hit("last-first") /\ below THEN "last-first"
             ELSE IF Hit("first-last") /\ below THEN "first-last"
             ELSE IF Hit("last-last") /\ below THEN "last-last"
             ELSE IF Hit("first-first") /\ below THEN "first-first"
             ELSE IF Hit("last-first") \/ Hit("first-last")
                     \/ Hit("last-last") \/ Hit("first-first") THEN "emit"
             ELSE "none"

IsMerge(branch) == branch \in {"last-first", "first-last", "last-last", "first-first"}

Absorption(stage, c, b) == [stage |-> stage, fragment |-> c, into |-> b]

Decision(stage, h, b, c, branch) ==
    [stage |-> stage, base |-> b, candidate |-> c, branch |-> branch,
     basePath |-> h[b].Path, candidatePath |-> h[c].Path,
     oneway |-> h[c].Oneway = "yes"]

(***************************************************************************)
(* S5: mergeStreetSameDirection, lines 1115-1413                           *)
(***************************************************************************)
\* 0.00065 degree, line 1128
distanceRangeSameDirection == 13

\* the guard never refusing
IntersectsFarNever(h, b, c, sameDirectionOnly, range) == FALSE

\* The guard "intersect together but distance greater than distance
\* range": for a oneway candidate of S5 and S6 the distance is the
\* same-direction one, otherwise the one over the four pairings.
GuardDistance(h, b, c, sameDirectionOnly) ==
    IF sameDirectionOnly
    THEN shortestDistanceWhenSameDirection(h[b].Path, h[c].Path)
    ELSE getShortestDistance(h[b].Path, h[c].Path)

IntersectsFar(h, b, c, sameDirectionOnly, range) ==
    /\ IntersectsPath(h[b].Path, h[c].Path)
    /\ GuardDistance(h, b, c, sameDirectionOnly) > range * range

\* the tail test without its first disjunct
ReachedLastOnlyEmpty(s, index) == Len(s) < 1

\* "When reach to the last item of list street": the test of lines 1398,
\* 1479, 1572, 1691, 1762, 1796 and 1902, on the list and the index it is
\* given
ReachedLast(s, index) == index = Len(s) - 1 \/ Len(s) < 1

mergeStreetSameDirectionRange ==
    /\ pc = "mergeStreetSameDirection"
    /\ \E key \in todo :
          /\ todo' = todo \ {key}
          /\ strName' = key
          /\ strs' = sortStreetsDescLength(street, groupDirectionNameMap[key])
          /\ normName' = key
          /\ baseStreet' = 0
          /\ i' = 0
          /\ pc' = "mergeStreetSameDirectionLoop"
    /\ UNCHANGED <<ways, mock, argc, queryError, tempFile, printed, street, next, maps, ret, group, streetGroup, ghosts>>

mergeStreetSameDirectionLoop ==
    /\ pc = "mergeStreetSameDirectionLoop"
    /\ LET single == Len(strs) = 1
           first == ~ single /\ i = 0
           str1 == baseStreet
           str2 == strs[i + 1]
           others == removeStreet(strs, 0)
           oneway == street[str2].Oneway = "yes"
           shortest == IF oneway
                       THEN shortestDistanceToOtherSameDirectionStreets(street, str1, others)
                       ELSE shortestDistanceToOtherStreets(street, str1, others)
           refused == IntersectsFar(street, str1, str2, oneway, distanceRangeSameDirection)
           branch == IF single \/ first THEN "none"
                     ELSE IF refused THEN "refused"
                     ELSE ChosenBranch(street, str1, str2, oneway, shortest)
           \* the list and the index before the test of line 1398
           strs1 == IF IsMerge(branch) \/ branch = "emit"
                    THEN removeStreet(strs, i) ELSE strs
           i1 == IF IsMerge(branch) THEN 0
                 ELSE IF branch = "emit" THEN i - 1 ELSE i
           atLast == IF single \/ first THEN FALSE
                     ELSE IF refused THEN i = Len(strs) - 1
                     ELSE ReachedLast(strs1, i1)
           strs2 == IF atLast THEN removeStreet(strs1, 0) ELSE strs1
           i2 == IF atLast THEN -1 ELSE i1
           out1 == IF single THEN Emit(mergedStreetSameDirection, normName, strs[1])
                   ELSE IF branch = "emit"
                   THEN Emit(mergedStreetSameDirection, normName, str2)
                   ELSE mergedStreetSameDirection
       IN  /\ baseStreet' = IF first THEN strs[1] ELSE baseStreet
           /\ street' = IF IsMerge(branch) THEN Merge(street, str1, str2, branch)
                        ELSE street
           /\ absorbed' = IF IsMerge(branch)
                          THEN absorbed \cup {Absorption("S5", str2, str1)}
                          ELSE absorbed
           /\ decision' = IF single \/ first THEN decision
                          ELSE Decision("S5", street, str1, str2, branch)
           /\ normName' = IF atLast THEN strName ELSE normName
           /\ mergedStreetSameDirection' =
                 IF atLast THEN Emit(out1, strName, str1) ELSE out1
           /\ strs' = strs2
           /\ i' = i2 + 1
           /\ pc' = AfterBody("mergeStreetSameDirectionLoop", "mergeStreetSameDirection",
                              strs2, i2)
    /\ UNCHANGED <<ways, mock, argc, queryError, tempFile, printed, next, earlier, roundabouts, skips, asked,
                   nameMap, groupDistanceNameMap,
                   groupDirectionNameMap, mergeLaneSameDirection, mergedStreet,
                   ret, todo, strName, group, streetGroup>>

mergeStreetSameDirectionDone ==
    /\ pc = "mergeStreetSameDirection"
    /\ todo = {}
    /\ pc' = "mergeLaneSameDirection"
    /\ todo' = DOMAIN mergedStreetSameDirection
    /\ strName' = <<>> /\ strs' = <<>> /\ i' = 0 /\ normName' = <<>>
    /\ baseStreet' = 0 /\ group' = 0 /\ streetGroup' = <<>>
    /\ UNCHANGED <<ways, mock, argc, queryError, tempFile, printed, street, next, maps, ret, ghosts>>

(***************************************************************************)
(* S6: mergeLaneSameDirection, lines 1417-1707                             *)
(***************************************************************************)
\* 0.0005 degree, line 1431
distanceRangeLane == 10


mergeLaneSameDirectionRange ==
    /\ pc = "mergeLaneSameDirection"
    /\ \E key \in todo :
          LET sorted == sortStreetsDescLength(street, mergedStreetSameDirection[key])
              name == SplitFirst(key, DirectionSeparator)
              index == getLongestStreetIndex(street, sorted)
              alone == Len(sorted) = 1
              looping == Len(sorted) > 1
          IN  /\ todo' = todo \ {key}
              /\ strName' = key
              /\ normName' = name
              /\ mergeLaneSameDirection' =
                    IF alone THEN Emit(mergeLaneSameDirection, name, sorted[1])
                    ELSE mergeLaneSameDirection
              /\ baseStreet' = IF looping THEN sorted[index + 1] ELSE 0
              /\ strs' = IF looping THEN removeStreet(sorted, index) ELSE sorted
              /\ i' = 0
              /\ pc' = IF looping THEN "mergeLaneSameDirectionLoop"
                       ELSE "mergeLaneSameDirection"
    /\ UNCHANGED <<ways, mock, argc, queryError, tempFile, printed, street, next, nameMap, groupDistanceNameMap,
                   groupDirectionNameMap, mergedStreetSameDirection, mergedStreet,
                   ret, group, streetGroup, ghosts>>

mergeLaneSameDirectionLoop ==
    /\ pc = "mergeLaneSameDirectionLoop"
    /\ LET currentStreet == strs[i + 1]
           oneway == street[currentStreet].Oneway = "yes"
           shortest == IF oneway
                       THEN shortestDistanceToOtherSameDirectionStreets(street, baseStreet, strs)
                       ELSE shortestDistanceToOtherStreets(street, baseStreet, strs)
           tolerance2 == distanceTolerance * distanceTolerance
           refused ==
               \/ IntersectsFar(street, baseStreet, currentStreet, oneway, distanceRangeLane)
               \/ /\ oneway
                  /\ GuardDistance(street, baseStreet, currentStreet, TRUE) > tolerance2
           branch == IF refused THEN "refused"
                     ELSE ChosenBranch(street, baseStreet, currentStreet, oneway, shortest)
           strs1 == IF branch = "none" THEN strs ELSE removeStreet(strs, i)
           i1 == IF IsMerge(branch) THEN -1
                 ELSE IF branch = "none" THEN i ELSE i - 1
           atLast == ReachedLast(strs1, i1)
           \* lines 1476-1487 end in continue: the list is left as it is
           strs2 == IF atLast /\ ~ refused THEN removeStreet(strs1, i1) ELSE strs1
           i2 == IF atLast /\ ~ refused THEN -1 ELSE i1
           out1 == IF branch = "emit"
                   THEN Emit(mergeLaneSameDirection, normName, currentStreet)
                   ELSE mergeLaneSameDirection
       IN  /\ street' = IF IsMerge(branch)
                        THEN Merge(street, baseStreet, currentStreet, branch)
                        ELSE street
           /\ absorbed' = IF IsMerge(branch)
                          THEN absorbed \cup {Absorption("S6", currentStreet, baseStreet)}
                          ELSE absorbed
           /\ decision' = Decision("S6", street, baseStreet, currentStreet, branch)
           /\ mergeLaneSameDirection' =
                 IF atLast THEN Emit(out1, normName, baseStreet) ELSE out1
           /\ strs' = strs2
           /\ i' = i2 + 1
           /\ pc' = AfterBody("mergeLaneSameDirectionLoop", "mergeLaneSameDirection",
                              strs2, i2)
    /\ UNCHANGED <<ways, mock, argc, queryError, tempFile, printed, next, earlier, roundabouts, skips, asked,
                   nameMap, groupDistanceNameMap,
                   groupDirectionNameMap, mergedStreetSameDirection, mergedStreet,
                   ret, todo, strName, normName, baseStreet, group, streetGroup>>

mergeLaneSameDirectionDone ==
    /\ pc = "mergeLaneSameDirection"
    /\ todo = {}
    /\ pc' = "mergeStreet"
    /\ todo' = DOMAIN mergeLaneSameDirection
    /\ roundabouts' = {id \in Ids(mergeLaneSameDirection) : IsLoop(street, id)}
    /\ strName' = <<>> /\ strs' = <<>> /\ i' = 0 /\ normName' = <<>>
    /\ baseStreet' = 0 /\ group' = 0 /\ streetGroup' = <<>>
    /\ UNCHANGED <<ways, mock, argc, queryError, tempFile, printed, street, next, maps, ret, absorbed, decision, skips, asked, earlier>>

(***************************************************************************)
(* S7: mergeStreet, lines 1710-1916                                        *)
(***************************************************************************)
\* 0.0003 degree, line 1723
distanceRangeStreet == 6

mergeStreetRange ==
    /\ pc = "mergeStreet"
    /\ \E key \in todo :
          LET sorted == removeRoundabout(street,
                            sortStreetsDescLength(street, mergeLaneSameDirection[key]))
              name == SplitFirst(key, GroupSeparator)
              index == getLongestStreetIndex(street, sorted)
              alone == Len(sorted) = 1
              looping == Len(sorted) > 1
          IN  /\ todo' = todo \ {key}
              /\ strName' = key
              /\ normName' = name
              /\ mergedStreet' =
                    IF alone THEN Emit(mergedStreet, name, sorted[1]) ELSE mergedStreet
              /\ baseStreet' = IF looping THEN sorted[index + 1] ELSE 0
              /\ strs' = IF looping THEN removeStreet(sorted, index) ELSE sorted
              /\ i' = 0
              /\ pc' = IF looping THEN "mergeStreetLoop" ELSE "mergeStreet"
    /\ skips' = {}
    /\ UNCHANGED <<ways, mock, argc, queryError, tempFile, printed, street, next, nameMap, groupDistanceNameMap,
                   groupDirectionNameMap, mergedStreetSameDirection,
                   mergeLaneSameDirection, ret, group, streetGroup,
                   absorbed, decision, roundabouts, asked, earlier>>

mergeStreetLoop ==
    /\ pc = "mergeStreetLoop"
    /\ LET currentStreet == strs[i + 1]
           D == shortestDistanceToOtherStreets(street, baseStreet, strs)
           Dsd == shortestDistanceToOtherSameDirectionStreets(street, baseStreet, strs)
           duplicated == baseStreet = currentStreet
           skipped == /\ ~ duplicated
                      /\ Dsd = 0 /\ Dsd = D
                      /\ ~ isTwoPathsSameDirection(PathVector(street, baseStreet),
                                                   PathVector(street, currentStreet))
                      /\ i < Len(strs) - 1
           refused == /\ ~ duplicated /\ ~ skipped
                      /\ IntersectsFar(street, baseStreet, currentStreet, FALSE,
                                       distanceRangeStreet)
           branch == IF duplicated THEN "duplicated"
                     ELSE IF refused THEN "refused"
                     ELSE IF skipped THEN "skipped"
                     ELSE ChosenBranch(street, baseStreet, currentStreet, FALSE, D)
           dropped == branch \in {"duplicated", "refused"}
           removed == IsMerge(branch) \/ dropped
           strs1 == IF removed THEN removeStreet(strs, i) ELSE strs
           i1 == IF IsMerge(branch) THEN -1
                 ELSE IF dropped THEN i - 1 ELSE i
           atLast == branch # "skipped" /\ ReachedLast(strs1, i1)
           \* lines 1759-1770 and 1793-1804 end in continue
           tail == atLast /\ ~ dropped
           strs2 == IF tail THEN removeStreet(strs1, i1) ELSE strs1
           i2 == IF tail THEN -1 ELSE i1
           out1 == IF branch = "emit" THEN Emit(mergedStreet, normName, currentStreet)
                   ELSE mergedStreet
       IN  /\ street' = IF IsMerge(branch)
                        THEN Merge(street, baseStreet, currentStreet, branch)
                        ELSE street
           /\ absorbed' = IF IsMerge(branch)
                          THEN absorbed \cup {Absorption("S7", currentStreet, baseStreet)}
                          ELSE absorbed
           /\ decision' = Decision("S7", street, baseStreet, currentStreet, branch)
           /\ skips' = IF branch = "skipped" THEN skips \cup {currentStreet}
                       ELSE skips
           /\ mergedStreet' = IF atLast THEN Emit(out1, normName, baseStreet) ELSE out1
           /\ strs' = strs2
           /\ i' = i2 + 1
           /\ pc' = AfterBody("mergeStreetLoop", "mergeStreet", strs2, i2)
    /\ UNCHANGED <<ways, mock, argc, queryError, tempFile, printed, next, earlier, roundabouts, asked,
                   nameMap, groupDistanceNameMap,
                   groupDirectionNameMap, mergedStreetSameDirection,
                   mergeLaneSameDirection, ret, todo, strName, normName,
                   baseStreet, group, streetGroup>>

(***************************************************************************)
(* The end of joinStreets, lines 364-383                                   *)
(***************************************************************************)
\* sort.Strings on a set of keys
RECURSIVE SortKeys(_)
SortKeys(keys) ==
    IF keys = {} THEN <<>>
    ELSE LET least == CHOOSE k \in keys : \A other \in keys \ {k} : StrLess(k, other)
         IN  <<least>> \o SortKeys(keys \ {least})

\* keys := make([]string, len(mergedStreet)) followed by the appends and
\* the sort: as many empty strings as there are keys, then the keys
SortedKeys(m) ==
    [k \in 1..Cardinality(DOMAIN m) |-> <<>>] \o SortKeys(DOMAIN m)

\* the streets of the keys in order; a key without an entry gives nil
RECURSIVE Collect(_, _)
Collect(m, keys) ==
    IF keys = <<>> THEN <<>>
    ELSE (IF Head(keys) \in DOMAIN m THEN m[Head(keys)] ELSE <<>>)
         \o Collect(m, Tail(keys))

mergeStreetDone ==
    /\ pc = "mergeStreet"
    /\ todo = {}
    /\ ret' = Collect(mergedStreet, SortedKeys(mergedStreet))
    /\ pc' = "done"
    /\ strName' = <<>> /\ strs' = <<>> /\ i' = 0 /\ normName' = <<>>
    /\ baseStreet' = 0 /\ group' = 0 /\ streetGroup' = <<>>
    /\ UNCHANGED <<ways, mock, argc, queryError, tempFile, printed, street, next, maps, todo, ghosts>>

\* the result as it is printed: the name and the points of each record
Records ==
    [k \in DOMAIN ret |-> [Name |-> street[ret[k]].Name, Path |-> street[ret[k]].Path]]

\* StreetMerge after joinStreets, lines 151-163: every record is printed,
\* the function returns and the deferred calls run (conn.Close, os.Remove)
printStreets ==
    /\ pc = "done"
    /\ printed' = Records
    /\ tempFile' = "removed"
    /\ pc' = "returned"
    /\ UNCHANGED <<ways, mock, argc, queryError, street, next, maps, ret, todo,
                   locals, ghosts>>

Next ==
    \/ parsePBF
    \/ generateStreetsFromWays
    \/ normalize
    \/ groupDistanceRange \/ groupDistanceLoop \/ groupDistanceDone
    \/ groupDirectionRange \/ groupDirectionLoop \/ groupDirectionDone
    \/ mergeStreetSameDirectionRange \/ mergeStreetSameDirectionLoop
    \/ mergeStreetSameDirectionDone
    \/ mergeLaneSameDirectionRange \/ mergeLaneSameDirectionLoop
    \/ mergeLaneSameDirectionDone
    \/ mergeStreetRange \/ mergeStreetLoop \/ mergeStreetDone
    \/ printStreets

Spec == Init /\ [][Next]_vars

(***************************************************************************)
(* A second run of the command on the same rows with the same parser: the *)
(* rows are read again, so the streets are built afresh; only the records *)
(* the first run returned are kept, to compare the two results.           *)
(***************************************************************************)
StreetMergeAgain ==
    /\ pc = "done"
    /\ earlier = NoRun
    /\ earlier' = [run |-> TRUE, records |-> Records]
    /\ pc' = "generateStreetsFromWays"
    /\ street' = <<>>
    /\ next' = 1
    /\ nameMap' = EmptyMap /\ groupDistanceNameMap' = EmptyMap
    /\ groupDirectionNameMap' = EmptyMap /\ mergedStreetSameDirection' = EmptyMap
    /\ mergeLaneSameDirection' = EmptyMap /\ mergedStreet' = EmptyMap
    /\ ret' = <<>>
    /\ absorbed' = {}
    /\ decision' = NoDecision
    /\ roundabouts' = {}
    /\ skips' = {}
    /\ asked' = << >>
    /\ UNCHANGED <<ways, mock, argc, queryError, tempFile, printed, todo, locals>>

NextTwice == Next \/ StreetMergeAgain

SpecTwice == Init /\ [][NextTwice]_vars

(***************************************************************************)
(* removeAccent on its own: a call of the function on one string, as line *)
(* 179 calls it.  strName is the argument, normName the result.  The      *)
(* arguments are the strings of one character over the characters of the  *)
(* table and a few others, and some strings of two characters.            *)
(***************************************************************************)
AccentInputs ==
    {<<SOURCE_CHARACTERS[k]>> : k \in 1..LL_LENGTH}
        \cup {<<97>>, <<100>>, <<121>>, <<240>>, <<303>>}
        \cup {<<273, 7847>>, <<97, 7922>>, <<121, 768>>}

InitAccent ==
    /\ ways = <<>>
    /\ mock = "strip"
    /\ argc = 1
    /\ queryError = FALSE
    /\ tempFile = "opened"
    /\ printed = <<>>
    /\ pc = "removeAccent"
    /\ earlier = NoRun
    /\ street = <<>>
    /\ next = 1
    /\ nameMap = EmptyMap /\ groupDistanceNameMap = EmptyMap
    /\ groupDirectionNameMap = EmptyMap /\ mergedStreetSameDirection = EmptyMap
    /\ mergeLaneSameDirection = EmptyMap /\ mergedStreet = EmptyMap
    /\ ret = <<>>
    /\ todo = {}
    /\ strName \in AccentInputs
    /\ strs = <<>> /\ i = 0 /\ normName = <<>>
    /\ baseStreet = 0 /\ group = 0 /\ streetGroup = <<>>
    /\ absorbed = {}
    /\ decision = NoDecision
    /\ roundabouts = {}
    /\ skips = {}
    /\ asked = << >>

removeAccentCall ==
    /\ pc = "removeAccent"
    /\ normName' = removeAccent(strName)
    /\ pc' = "removeAccentDone"
    /\ UNCHANGED <<ways, mock, argc, queryError, tempFile, printed, street, next,
                   maps, ret, todo, strName, strs, i, baseStreet, group,
                   streetGroup, ghosts>>

SpecAccent == InitAccent /\ [][removeAccentCall]_vars

(***************************************************************************)
(* A run against a parser service that spells a street with a capital:    *)
(* it answers "A" for the query "duong a--b" and the name as it was asked *)
(* for every other query.  The service is outside the program, and S3     *)
(* lowers the names it gave (lines 228 and 236).                          *)
(***************************************************************************)
SpecCase == InitWith(Extracts, {"capital"}) /\ [][Next]_vars

(***************************************************************************)
(* What the properties below speak of                                      *)
(***************************************************************************)
\* how often the street x occurs in the list s
Count(s, x) == Cardinality({k \in DOMAIN s : s[k] = x})

\* the list a map holds under a key, nil when there is no entry
Bucket(m, key) == IF key \in DOMAIN m THEN m[key] ELSE <<>>

AbsorbedIds == {a.fragment : a \in absorbed}

\* a stage has visited every key of its input
S5Ended == pc = "mergeStreetSameDirection" /\ todo = {}
S6Ended == pc = "mergeLaneSameDirection" /\ todo = {}
S7Ended == pc \in {"done", "returned"}

\* the key a stage emits under, for the key of its input
S6Key(key) == SplitFirst(key, DirectionSeparator)
S7Key(key) == SplitFirst(key, GroupSeparator)

\* the guard distance of a stage
GuardRange(stage) ==
    CASE stage = "S5" -> distanceRangeSameDirection
      [] stage = "S6" -> distanceRangeLane
      [] stage = "S7" -> distanceRangeStreet

\* the square of the distance between the endpoints a branch joins
Pairing(basePath, candidatePath, branch) ==
    CASE branch = "last-first" -> Dist2(Last(basePath), First(candidatePath))
      [] branch = "first-last" -> Dist2(First(basePath), Last(candidatePath))
      [] branch = "last-last" -> Dist2(Last(basePath), Last(candidatePath))
      [] branch = "first-first" -> Dist2(First(basePath), First(candidatePath))

Merged == decision.stage # "none" /\ IsMerge(decision.branch)

NoAdjacentDuplicate(path) == \A k \in 1..(Len(path) - 1) : path[k] # path[k + 1]

\* a folded name begins with one of the four words
StartsWithIgnoredWord(folded) ==
    \/ HasPrefix(folded, <<107, 105, 101, 116>>)
    \/ HasPrefix(folded, <<104, 101, 109>>)
    \/ HasPrefix(folded, <<99, 97, 117>>)
    \/ HasPrefix(folded, <<118, 111, 110, 103, 32, 120, 117, 121, 101, 110>>)

\* the ways of the catalogue whose lowercased, accent-folded raw name begins
\* with one of the four words or is "ngo chu huy man"
IgnoredWays ==
    {k \in DOMAIN Catalogue :
        LET folded == removeAccent(ToLower(Catalogue[k].name))
        IN  \/ StartsWithIgnoredWord(folded)
            \/ folded = <<110, 103, 111, 32, 99, 104, 117, 32, 104, 117, 121, 32, 109, 97, 110>>}

(***************************************************************************)
(* Stage by stage: when the stage has ended, every street of every input  *)
(* bucket was absorbed into another street or is in the output bucket of  *)
(* its key (the closed loops S7 removes on entry are left out).           *)
(***************************************************************************)
NoFragmentLostInS5 ==
    S5Ended =>
        \A key \in DOMAIN groupDirectionNameMap :
            \A id \in Range(groupDirectionNameMap[key]) :
                \/ id \in AbsorbedIds
                \/ Count(Bucket(mergedStreetSameDirection, key), id) > 0

NoFragmentLostInS6 ==
    S6Ended =>
        \A key \in DOMAIN mergedStreetSameDirection :
            \A id \in Range(mergedStreetSameDirection[key]) :
                \/ id \in AbsorbedIds
                \/ Count(Bucket(mergeLaneSameDirection, S6Key(key)), id) > 0

NoFragmentLostInS7 ==
    S7Ended =>
        \A key \in DOMAIN mergeLaneSameDirection :
            \A id \in Range(mergeLaneSameDirection[key]) :
                \/ id \in AbsorbedIds
                \/ id \in roundabouts
                \/ Count(Bucket(mergedStreet, S7Key(key)), id) > 0

(***************************************************************************)
(* C1.  In each of S5, S6 and S7 a candidate that is not merged into the  *)
(* base (the guard refuses it, or no endpoint pair is under the           *)
(* tolerance) is in the output map of the stage under the output key of   *)
(* the stage: no street leaves a work list without having been absorbed   *)
(* or emitted.                                                             *)
(***************************************************************************)
C1_NoFragmentLost ==
    NoFragmentLostInS5 /\ NoFragmentLostInS6 /\ NoFragmentLostInS7

(***************************************************************************)
(* C2.  In the list joinStreets returns no street occurs more than once,  *)
(* and no street whose points were appended onto another street occurs as *)
(* a record of its own.                                                    *)
(***************************************************************************)
C2_NoDuplicateRecord ==
    pc = "done" =>
        /\ \A x, y \in DOMAIN ret : x # y => ret[x] # ret[y]
        /\ \A x \in DOMAIN ret : ret[x] \notin AbsorbedIds

(***************************************************************************)
(* C3.  For fixed rows and a fixed parser, joinStreets returns the same   *)
(* records in the same order with the same points whatever order the maps *)
(* are iterated in: a second run returns what the first run returned.     *)
(***************************************************************************)
C3_SameResultEveryRun ==
    (pc = "done" /\ earlier.run) => Records = earlier.records

(***************************************************************************)
(* C4.  No stage appends a candidate onto a base when, at the time of the *)
(* decision, the two paths intersect and the least of the four endpoint   *)
(* distances exceeds the guard distance of the stage (13, 10 and 6 units  *)
(* for 0.00065, 0.0005 and 0.0003 degree).                                 *)
(***************************************************************************)
C4_NoMergeAcrossFarIntersection ==
    Merged =>
        ~ (/\ IntersectsPath(decision.basePath, decision.candidatePath)
           /\ getShortestDistance(decision.basePath, decision.candidatePath)
                 > GuardRange(decision.stage) * GuardRange(decision.stage))

\* S7 has refused a candidate that crosses its base 6 units or more from
\* the nearest endpoints
C4_Witness ==
    /\ decision.stage = "S7"
    /\ decision.branch = "refused"
    /\ IntersectsPath(decision.basePath, decision.candidatePath)
    /\ getShortestDistance(decision.basePath, decision.candidatePath)
          > distanceRangeStreet * distanceRangeStreet

(***************************************************************************)
(* C5.  Whenever a stage appends a candidate onto a base, the endpoints   *)
(* that are joined are less than 0.003 degree (60 units) apart, and their *)
(* distance is the least over the pairings the candidate may take: the    *)
(* two same-direction pairings for a oneway candidate in S5 and S6, all   *)
(* four otherwise.                                                         *)
(***************************************************************************)
C5_JoinedAtAdmissibleMinimum ==
    Merged =>
        LET d == Pairing(decision.basePath, decision.candidatePath, decision.branch)
            sameDirectionOnly == decision.oneway /\ decision.stage \in {"S5", "S6"}
        IN  /\ d < distanceTolerance * distanceTolerance
            /\ sameDirectionOnly => decision.branch \in {"last-first", "first-last"}
            /\ d = IF sameDirectionOnly
                   THEN shortestDistanceWhenSameDirection(decision.basePath,
                                                          decision.candidatePath)
                   ELSE getShortestDistance(decision.basePath, decision.candidatePath)

\* S7 has appended a candidate whose joined endpoint lies off the base
C5_Witness ==
    /\ Merged
    /\ decision.stage = "S7"
    /\ Pairing(decision.basePath, decision.candidatePath, decision.branch) > 0

(***************************************************************************)
(* C6.  When S5 has ended, every street of every input sub-group is       *)
(* either absorbed, once, into a street of the same sub-group that is     *)
(* itself in the output, or is exactly once in the output under the key   *)
(* of the sub-group and under no other key; none is lost, none is emitted *)
(* twice.                                                                  *)
(***************************************************************************)
C6_S5EmitsEachFragmentOnce ==
    S5Ended =>
        \A key \in DOMAIN groupDirectionNameMap :
            \A id \in Range(groupDirectionNameMap[key]) :
                LET n == Count(Bucket(mergedStreetSameDirection, key), id)
                    A == {a \in absorbed : a.fragment = id}
                    elsewhere == {other \in DOMAIN mergedStreetSameDirection \ {key} :
                                     Count(mergedStreetSameDirection[other], id) > 0}
                IN  /\ elsewhere = {}
                    /\ \/ n = 1 /\ A = {}
                       \/ /\ n = 0
                          /\ Cardinality(A) = 1
                          /\ \A a \in A :
                                /\ a.stage = "S5"
                                /\ a.into # id
                                /\ a.into \in Range(groupDirectionNameMap[key])
                                /\ Count(Bucket(mergedStreetSameDirection, key), a.into) = 1

\* S5 has ended with a sub-group of which one street was absorbed and two
\* others were emitted
C6_Witness ==
    /\ S5Ended
    /\ \E key \in DOMAIN mergedStreetSameDirection :
          /\ Len(mergedStreetSameDirection[key]) >= 2
          /\ \E a \in absorbed : a.into \in Range(mergedStreetSameDirection[key])

(***************************************************************************)
(* C7.  Every path in the output of joinStreets has at least 2 points:    *)
(* S1 creates no street from a way without nodes or with 0 or 1 nodes,    *)
(* and no stage removes points from a path (a street never has fewer      *)
(* points than its way has nodes).                                         *)
(***************************************************************************)
C7_PathsHaveTwoPoints ==
    /\ \A id \in DOMAIN street :
          /\ Catalogue[street[id].WayId].Valid
          /\ Len(Catalogue[street[id].WayId].nodes) >= 2
          /\ Len(street[id].Path) >= Len(Catalogue[street[id].WayId].nodes)
    /\ pc = "done" => \A k \in DOMAIN ret : Len(street[ret[k]].Path) >= 2

\* a run over rows holding a way without nodes and a way of one node has
\* ended with a record that grew by a merge
C7_Witness ==
    /\ pc = "done"
    /\ \E k \in DOMAIN ways : ~ ways[k].Valid
    /\ \E k \in DOMAIN ways : ways[k].Valid /\ Len(ways[k].nodes) = 1
    /\ \E k \in DOMAIN ret : Len(street[ret[k]].Path) > 2

(***************************************************************************)
(* C8.  The ways of an extract have no two equal adjacent points; then no *)
(* path in the output has two equal adjacent points, so that the point    *)
(* two coinciding endpoints are joined at occurs once at the junction, in *)
(* each of the four orientations.                                          *)
(***************************************************************************)
C8_NoAdjacentDuplicates ==
    pc = "done" => \A k \in DOMAIN ret : NoAdjacentDuplicate(street[ret[k]].Path)

(***************************************************************************)
(* C9.  A street that is a closed loop when S7 starts is never in the     *)
(* output of joinStreets, neither as a record of its own nor absorbed by  *)
(* S7 into another record.                                                 *)
(***************************************************************************)
C9_NoRoundaboutInOutput ==
    \A id \in roundabouts :
        /\ id \notin Range(ret)
        /\ id \notin Ids(mergedStreet)
        /\ \A a \in absorbed : a.stage = "S7" => a.fragment # id

\* a run that entered S7 with a closed loop has ended with records
C9_Witness ==
    /\ pc = "done"
    /\ roundabouts # {}
    /\ ret # <<>>

NameOfReply(solutions) ==
    IF solutions = <<>> THEN <<>>
    ELSE LET cs == solutions[1].Classifications
             streets == {k \in DOMAIN cs : cs[k].Label = "street"}
         IN  IF \E k \in DOMAIN cs : cs[k].Label = "housenumber" THEN <<>>
             ELSE IF streets = {} THEN <<>>
             ELSE cs[CHOOSE k \in streets : TRUE].Value

AllBucketIds ==
    Ids(nameMap) \cup Ids(groupDistanceNameMap) \cup Ids(groupDirectionNameMap)
    \cup Ids(mergedStreetSameDirection) \cup Ids(mergeLaneSameDirection)
    \cup Ids(mergedStreet)

C11_NameFromFirstSolution ==
    \A id \in DOMAIN asked :
        LET name == NameOfReply(MockReply(mock, asked[id]).Solutions)
        IN  IF name = <<>> \/ (pc = "exit" /\ id = next)
            THEN id \notin AllBucketIds /\ id \notin Range(ret)
            ELSE /\ street[id].Name = name
                 /\ pc = "normalize" => Count(Bucket(nameMap, name), id) = 1

\* S2 has ended on a reply whose housenumber stands after the street, for
\* one street, and has kept another street under the name of its reply
C11_Witness ==
    /\ pc = "groupDistance"
    /\ \E id \in DOMAIN asked :
          LET solutions == MockReply(mock, asked[id]).Solutions
          IN  /\ solutions # <<>>
              /\ \E j, k \in DOMAIN solutions[1].Classifications :
                    /\ j < k
                    /\ solutions[1].Classifications[j].Label = "street"
                    /\ solutions[1].Classifications[k].Label = "housenumber"
    /\ \E id \in DOMAIN asked : id \in Ids(nameMap)

(***************************************************************************)
(* C12.  A failing request to the parser service and a reply that is no   *)
(* JSON are both fatal: once the service has been asked under either, the *)
(* process has exited and nothing is printed; the street is not dropped   *)
(* with the run going on.                                                  *)
(***************************************************************************)
C12_ParserFailuresAreFatal ==
    (mock \in {"http_error", "malformed"} /\ asked # << >>) =>
        (pc = "exit" /\ printed = <<>>)

(***************************************************************************)
(* C13.  The staging file is removed on every path out of the command:    *)
(* whenever the process has ended, by return or by exit, the file has     *)
(* been removed.                                                           *)
(***************************************************************************)
C13_TempFileRemovedOnEveryExit ==
    pc \in {"exit", "returned"} => tempFile = "removed"

(***************************************************************************)
(* C14.  When a candidate is appended onto a base through the pairing of  *)
(* the base's last point with the candidate's first point and the two     *)
(* points are equal, the base's path after the merge is its previous      *)
(* points followed by all points of the candidate but the first, in the   *)
(* candidate's order, and the base is the street that survives.           *)
(***************************************************************************)
C14_LastFirstAppendsAllButJoinPoint ==
    (/\ Merged
     /\ decision.branch = "last-first"
     /\ Last(decision.basePath) = First(decision.candidatePath)) =>
        /\ street[decision.base].Path = decision.basePath \o Tail(decision.candidatePath)
        /\ \E a \in absorbed : a.fragment = decision.candidate /\ a.into = decision.base

(***************************************************************************)
(* C15.  When a candidate is appended onto a base through the pairing of  *)
(* the base's first point with the candidate's last point, the base's     *)
(* path after the merge is the candidate's points followed by the base's  *)
(* previous points in their order, with the join point once when the two  *)
(* points are equal.                                                       *)
(***************************************************************************)
C15_FirstLastPrependsCandidate ==
    (Merged /\ decision.branch = "first-last") =>
        LET c == decision.candidatePath
            b == decision.basePath
        IN  street[decision.base].Path =
               (IF First(b) = Last(c) THEN SubSeq(c, 1, Len(c) - 1) ELSE c) \o b

(***************************************************************************)
(* C16.  After S3, for every name, two streets of the name are in the     *)
(* same proximity bucket name__G exactly when a chain of streets of the   *)
(* name links them in which each street is less than 0.003 degree (60     *)
(* units) from the next, by the least distance of their endpoints; every  *)
(* street of the name is in one bucket, and the buckets of the name are   *)
(* numbered from 1.  So every member of a later group is 0.003 or more    *)
(* from every member of an earlier group.                                 *)
(***************************************************************************)
\* S3 has ended and no path has changed since
S3Ended == pc \in {"groupDirection", "groupDirectionLoop"}

\* the square of the least distance between the endpoints of two streets
EndpointMinDistance(x, y) ==
    LET p == street[x].Path
        q == street[y].Path
        ds == {Dist2(First(p), First(q)), Dist2(First(p), Last(q)),
               Dist2(Last(p), First(q)), Dist2(Last(p), Last(q))}
    IN  CHOOSE d \in ds : \A e \in ds : d <= e

\* the streets of S a chain links to a street of R
RECURSIVE Linked(_, _)
Linked(R, S) ==
    LET more == {y \in S \ R : \E x \in R : EndpointMinDistance(x, y) < 60 * 60}
    IN  IF more = {} THEN R ELSE Linked(R \cup more, S)

\* the keys of the proximity buckets that hold a street
GroupKeysOf(id) ==
    {key \in DOMAIN groupDistanceNameMap : Count(groupDistanceNameMap[key], id) > 0}

KeysOf(m, id) == {key \in DOMAIN m : Count(m[key], id) > 0}

\* the keys name__G a street may have
GroupKeys(id) == {street[id].Name \o GroupSeparator \o Itoa(g) : g \in 1..Len(street)}

OneNamePerBucket(m) ==
    \A key \in DOMAIN m :
        \A x, y \in Range(m[key]) : street[x].Name = street[y].Name

C17_KeysChangeBySuffixOnly ==
    /\ \A id \in Ids(nameMap) :
          /\ KeysOf(nameMap, id) = {street[id].Name}
          /\ KeysOf(groupDistanceNameMap, id) \subseteq GroupKeys(id)
          /\ KeysOf(groupDirectionNameMap, id)
                \subseteq KeysOf(groupDistanceNameMap, id)
                   \cup {k \o DirectionSeparator \o Itoa(d) :
                            k \in KeysOf(groupDistanceNameMap, id), d \in 0..Len(street)}
          /\ KeysOf(mergedStreetSameDirection, id) \subseteq KeysOf(groupDirectionNameMap, id)
          /\ KeysOf(mergeLaneSameDirection, id) \subseteq KeysOf(groupDistanceNameMap, id)
          /\ KeysOf(mergedStreet, id) \subseteq {street[id].Name}
    /\ OneNamePerBucket(nameMap) /\ OneNamePerBucket(groupDistanceNameMap)
    /\ OneNamePerBucket(groupDirectionNameMap)
    /\ OneNamePerBucket(mergedStreetSameDirection)
    /\ OneNamePerBucket(mergeLaneSameDirection) /\ OneNamePerBucket(mergedStreet)

(***************************************************************************)
(* C18.  S2 is idempotent: for every name S2 has given a street, S2 on    *)
(* that name, with a parser that passes its input through, gives the name *)
(* again.  The parser that passes through is read in the two ways the     *)
(* words allow: it answers the text it was sent ("echo"), or the name S2  *)
(* was handed, without the "duong " S2 puts before it ("strip").          *)
(***************************************************************************)
C18_NormalizeIsIdempotent ==
    \A k \in DOMAIN nameMap :
        \E m \in {"echo", "strip"} :
            LET again == NormalizeName(m, k)
            IN  ~ again.skip /\ ~ again.exit /\ again.name = k

(***************************************************************************)
(* C19.  The loop of S3 ends on every list: a step of the loop that stays *)
(* in the loop either goes on to the next index over the same list, or    *)
(* starts the scan again over a list that is one street shorter, having   *)
(* admitted a street to the group or removed the head.                    *)
(***************************************************************************)
C19_S3ListShrinksBetweenRestarts ==
    [][(pc = "groupDistanceLoop" /\ pc' = "groupDistanceLoop") =>
          \/ strs' = strs /\ i' = i + 1
          \/ /\ Len(strs') = Len(strs) - 1
             /\ \/ i' = 1 /\ Len(streetGroup') = Len(streetGroup) + 1
                \/ i' = 0 /\ strs' = Tail(strs) /\ streetGroup' = streetGroup]_vars

\* the loop of S3 starts again on the streets a first group has left,
\* after that group admitted a street and its head was removed
C19_Witness ==
    /\ pc = "groupDistanceLoop"
    /\ i = 0
    /\ group = 2
    /\ \E key \in DOMAIN groupDistanceNameMap : Len(groupDistanceNameMap[key]) >= 2

(***************************************************************************)
(* C20.  The loops of S4, S5, S6 and S7 end on every bucket: a step of    *)
(* such a loop that stays in the loop and does not go on to the next      *)
(* index has removed at least one street from the work list, and a step   *)
(* that removes nothing goes on to the next index over the same list.     *)
(***************************************************************************)
WorklistLoops ==
    {"groupDirectionLoop", "mergeStreetSameDirectionLoop",
     "mergeLaneSameDirectionLoop", "mergeStreetLoop"}

C20_WorklistShrinksAtEveryReset ==
    [][(pc \in WorklistLoops /\ pc' = pc) =>
          \/ strs' = strs /\ i' = i + 1
          \/ Len(strs') < Len(strs) /\ i' <= i + 1]_vars

\* the loop of S5 has merged a street into its base, removed it from the
\* work list, and started the scan again over the streets that are left
C20_Witness ==
    /\ pc = "mergeStreetSameDirectionLoop"
    /\ decision.stage = "S5"
    /\ Merged
    /\ i = 1
    /\ Len(strs) >= 2

(***************************************************************************)
(* C21.  A candidate S7 has passed over through the test of lines         *)
(* 1780-1787 is visited again while its bucket is worked on: when the     *)
(* loop of the bucket has ended, it is not in the work list any more, and *)
(* S7 has appended it onto a base or has put it in the output bucket.     *)
(***************************************************************************)
C21_SkippedCandidateIsMergedOrEmitted ==
    pc = "mergeStreet" =>
        \A id \in skips :
            /\ Count(strs, id) = 0
            /\ \/ \E a \in absorbed : a.stage = "S7" /\ a.fragment = id
               \/ Count(Bucket(mergedStreet, normName), id) > 0


(***************************************************************************)
(* C22.  The direction of a oneway street is kept: whenever a oneway      *)
(* candidate is absorbed into a base, in S5, S6 or S7, it was joined head *)
(* to tail (base.last-candidate.first or base.first-candidate.last), it   *)
(* ran in the direction of the base, and its points are in the path of    *)
(* the base in the order they had, never in the opposite order.           *)
(***************************************************************************)
\* the points of a occur in b in the order of a
RECURSIVE IsSubseq(_, _)
IsSubseq(a, b) ==
    IF a = <<>> THEN TRUE
    ELSE IF b = <<>> THEN FALSE
    ELSE IF Head(a) = Head(b) THEN IsSubseq(Tail(a), Tail(b))
    ELSE IsSubseq(a, Tail(b))

\* the path without its last point
Front(path) == SubSeq(path, 1, Len(path) - 1)

\* The candidate is in the result as it ran (the end it was joined at may
\* have been left out as the join point), and not the other way round.
KeepsOrder(candidatePath, result) ==
    /\ \/ IsSubseq(candidatePath, result)
       \/ IsSubseq(Tail(candidatePath), result)
       \/ IsSubseq(Front(candidatePath), result)
    /\ IsSubseq(Reverse(candidatePath), result) => IsSubseq(candidatePath, result)

\* the chords of two paths make an angle with cosine in (0, 1]: the dot
\* product is positive (a chord of length 0 has no cosine)
CoDirectional(path1, path2) ==
    LET ax == Last(path1)[1] - First(path1)[1]
        ay == Last(path1)[2] - First(path1)[2]
        bx == Last(path2)[1] - First(path2)[1]
        by == Last(path2)[2] - First(path2)[2]
    IN  ax * bx + ay * by > 0

C22_OnewayCandidateKeepsDirection ==
    (Merged /\ decision.oneway) =>
        /\ decision.branch \in {"last-first", "first-last"}
        /\ CoDirectional(decision.basePath, decision.candidatePath)
        /\ KeepsOrder(decision.candidatePath, street[decision.base].Path)


(***************************************************************************)
(* C23.  When S4 has ended, in every proximity group: the direction       *)
(* buckets of the group are numbered 0, 1, 2, ... without a gap; every    *)
(* member of a direction bucket is oneway; every member after the first   *)
(* (the seed) runs in the direction of the seed, cosine of the chords in  *)
(* (0, 1]; the seed is at least as long as every street of its own and of *)
(* every later bucket; and no street of a later bucket runs in the        *)
(* direction of the seed of an earlier bucket.                            *)
(***************************************************************************)
\* S4 has visited every proximity group and no path has changed since
S4Ended == pc = "groupDirection" /\ todo = {}

\* the key of the direction bucket d of the proximity group g
DirectionKey(g, d) == g \o DirectionSeparator \o Itoa(d)

\* the ordinals of the direction buckets of the proximity group g
Ordinals(g) == {d \in 0..9 : DirectionKey(g, d) \in DOMAIN groupDirectionNameMap}

C23_DirectionBucketsFollowTheSeed ==
    S4Ended =>
        \A g \in DOMAIN groupDistanceNameMap :
            /\ Ordinals(g) = 0..(Cardinality(Ordinals(g)) - 1)
            /\ \A d \in Ordinals(g) :
                  LET members == groupDirectionNameMap[DirectionKey(g, d)]
                      seed == members[1]
                  IN  /\ \A k \in DOMAIN members : street[members[k]].Oneway = "yes"
                      /\ \A k \in 2..Len(members) :
                            CoDirectional(street[seed].Path, street[members[k]].Path)
                      /\ \A e \in Ordinals(g) :
                            e >= d =>
                               \A id \in Range(groupDirectionNameMap[DirectionKey(g, e)]) :
                                   PathDistance(street[seed].Path)
                                       >= PathDistance(street[id].Path)
                      /\ \A e \in Ordinals(g) :
                            e > d =>
                               \A id \in Range(groupDirectionNameMap[DirectionKey(g, e)]) :
                                   ~ CoDirectional(street[seed].Path, street[id].Path)

\* S4 has ended with a proximity group of two direction buckets, one of
\* them holding a street admitted to its seed
C23_Witness ==
    /\ S4Ended
    /\ \E g \in DOMAIN groupDistanceNameMap :
          /\ {0, 1} \subseteq Ordinals(g)
          /\ \E d \in Ordinals(g) : Len(groupDirectionNameMap[DirectionKey(g, d)]) >= 2


(***************************************************************************)
(* C24.  S3 and S4 only partition.  When S4 has ended, every street that  *)
(* passed S2 is in exactly one proximity bucket and in exactly one bucket *)
(* of S4, once: none is lost, none is in two buckets, none was            *)
(* overwritten by the bucket of another name.  A two-way street is under  *)
(* the key of its proximity group, a oneway street under that key with    *)
(* one suffix --D, and the path of the street is the path S1 gave it.     *)
(***************************************************************************)
C24_S3AndS4OnlyPartition ==
    S4Ended =>
        \A id \in Ids(nameMap) :
            LET groups == KeysOf(groupDistanceNameMap, id)
                keys == KeysOf(groupDirectionNameMap, id)
            IN  /\ Cardinality(groups) = 1
                /\ \A g \in groups : Count(groupDistanceNameMap[g], id) = 1
                /\ Cardinality(keys) = 1
                /\ \A key \in keys : Count(groupDirectionNameMap[key], id) = 1
                /\ IF street[id].Oneway = "yes"
                   THEN \E g \in groups : \E d \in 0..9 : keys = {DirectionKey(g, d)}
                   ELSE keys = groups
                /\ street[id].Path = Catalogue[street[id].WayId].nodes


(***************************************************************************)
(* C25.  The guards of S5, S6 and S7 test the intersection of the chords, *)
(* first point to last point, of the base and the candidate: a candidate  *)
(* is refused exactly when the two chords intersect and the guard         *)
(* distance is over the range of the stage (or, for a oneway candidate of *)
(* S6, over the tolerance).  Two streets whose chords do not intersect    *)
(* are not refused, whatever points lie between their ends.               *)
(***************************************************************************)
\* the square of the distance the guard of the latest decision compared
DecisionGuardDistance ==
    IF decision.oneway /\ decision.stage \in {"S5", "S6"}
    THEN shortestDistanceWhenSameDirection(decision.basePath, decision.candidatePath)
    ELSE getShortestDistance(decision.basePath, decision.candidatePath)

\* the guard as the claim describes it, on the latest decision
ChordGuard ==
    \/ /\ isIntersection(decision.basePath, decision.candidatePath)
       /\ DecisionGuardDistance > GuardRange(decision.stage) * GuardRange(decision.stage)
    \/ /\ decision.stage = "S6" /\ decision.oneway
       /\ DecisionGuardDistance > distanceTolerance * distanceTolerance

C25_GuardLooksAtChordsOnly ==
    (decision.stage # "none" /\ decision.branch \notin {"duplicated", "skipped"}) =>
        (decision.branch = "refused" <=> ChordGuard)


(***************************************************************************)
(* C26.  removeAccent is the function of the table: in its result every   *)
(* character of SOURCE_CHARACTERS is replaced by the character at the     *)
(* same position of DESTINATION_CHARACTERS (the lookup finds every entry  *)
(* of the table, the last eight, which map to y, included) and every      *)
(* other character is as it was.                                          *)
(***************************************************************************)
\* the positions of a character in the table
TablePositions(ch) == {k \in 1..LL_LENGTH : SOURCE_CHARACTERS[k] = ch}

\* the table as a function of one character
TableValue(ch) ==
    IF TablePositions(ch) = {} THEN ch
    ELSE DESTINATION_CHARACTERS[CHOOSE k \in TablePositions(ch) : TRUE]

C26_RemoveAccentIsTheTable ==
    pc = "removeAccentDone" =>
        /\ Len(normName) = Len(strName)
        /\ \A k \in DOMAIN strName : normName[k] = TableValue(strName[k])


(***************************************************************************)
(* C27.  In S6 and in S7, when the loop over a bucket of two or more      *)
(* streets (in S7 after the closed loops were removed) has ended, the     *)
(* base of the bucket, its longest street, is in the output bucket        *)
(* exactly once, whatever merges, refusals, skips and pass-throughs the   *)
(* loop went through.                                                      *)
(***************************************************************************)
C27_BaseAppendedExactlyOnce ==
    /\ (pc = "mergeLaneSameDirection" /\ baseStreet # 0) =>
           Count(Bucket(mergeLaneSameDirection, normName), baseStreet) = 1
    /\ (pc = "mergeStreet" /\ baseStreet # 0) =>
           Count(Bucket(mergedStreet, normName), baseStreet) = 1


(***************************************************************************)
(* C28.  Every indexed read of a work list is inside the list.  In the    *)
(* body of the loops of S3, S4, S5, S6 and S7 the index i is at least 0   *)
(* and less than the length of the list when strs[i] (and, at i = 0,      *)
(* strs[0]) is read, after every removal and every reset of the index.    *)
(* Before the loops: S3 reads strs[0] of a bucket that is not empty, and  *)
(* S6 and S7 read strs[0] of a list of one street or strs[index] with the *)
(* index of the longest street inside a list of two or more.              *)
(***************************************************************************)
\* the places of the run inside the body of a loop over a work list
LoopBodies ==
    {"groupDistanceLoop", "groupDirectionLoop", "mergeStreetSameDirectionLoop",
     "mergeLaneSameDirectionLoop", "mergeStreetLoop"}

\* strs[index] of lines 1453 and 1744 is inside the list
LongestInside(sorted) ==
    Len(sorted) >= 2 =>
        /\ 0 <= getLongestStreetIndex(street, sorted)
        /\ getLongestStreetIndex(street, sorted) < Len(sorted)

C28_IndexedReadsAreInRange ==
    /\ pc \in LoopBodies => (0 <= i /\ i < Len(strs))
    /\ pc = "groupDistance" => \A key \in todo : Len(nameMap[key]) >= 1
    /\ pc = "mergeLaneSameDirection" =>
          \A key \in todo :
              LongestInside(sortStreetsDescLength(street, mergedStreetSameDirection[key]))
    /\ pc = "mergeStreet" =>
          \A key \in todo :
              LongestInside(removeRoundabout(street,
                  sortStreetsDescLength(street, mergeLaneSameDirection[key])))

\* S7 reads strs[0] again after it removed the candidate at index 0, took
\* the index to -1 and went on with the next pass of the loop
C28_Witness ==
    /\ pc = "mergeStreetLoop"
    /\ decision.stage = "S7"
    /\ decision.branch \in {"refused", "duplicated"}
    /\ i = 0
    /\ Len(strs) >= 1

====
